---- MODULE Spec2Model ----
(***************************************************************************)
(* Geometric core of the ray tracer: Intersections (hit selection),        *)
(* Intersection::prepare_computations, Material::lighting and the Camera   *)
(* (construction and render loop).                                         *)
(*                                                                         *)
(* f64 values are modelled as exact rationals <<n, d>> in lowest terms     *)
(* with d > 0, extended with the IEEE special values NaN = <<0, 0>>,       *)
(* +Inf = <<1, 0>> and -Inf = <<-1, 0>>, so that x / 0 and 0 / 0 behave as *)
(* they do for f64.  Rounding of ordinary results is not modelled; sqrt    *)
(* of a non-square is rounded down to a grid of SqrtPrec steps.            *)
(***************************************************************************)
EXTENDS Integers, Sequences, FiniteSets, TLC

VARIABLES
    input,    \* the Vec<Intersection> given to the last Intersections::new
    xs,       \* the receiver Intersections: [inner, current_hit]
    self0,    \* the receiver as it was before the last extend
    arg,      \* the Intersections moved into the last extend
    op,       \* last Intersections operation: "new" or "extend"
    comps,    \* last prepare_computations call: inputs and PrecomputedData
    shade,    \* last Material::lighting call: inputs, locals and result
    cam,      \* the Camera built by Camera::new
    image,    \* the Canvas of render: how often and with what each pixel was written
    pc,       \* position of render
    px,       \* loop variable x of render
    py        \* loop variable y of render

vars == <<input, xs, self0, arg, op, comps, shade, cam, image, pc, px, py>>

\* Option<T>: None, or Some(v) as the one-element sequence <<v>>.
None == <<>>

Some(v) == <<v>>

----------------------------------------------------------------------------
\* f64 arithmetic
\*
\* Rust passes arguments by value: an operator's body is applied to the values
\* of its arguments, each evaluated once (CHOOSE over the one-element set).

Abs(i) == IF i < 0 THEN -i ELSE i

Sign(i) == IF i < 0 THEN -1 ELSE IF i = 0 THEN 0 ELSE 1

RECURSIVE GCD(_, _)
GCD(x, y) ==
    LET Op(a, b) == IF b = 0 THEN a ELSE GCD(b, a % b)
    IN  CHOOSE r \in {Op(v1, v2) : v1 \in {x}, v2 \in {y}} : TRUE

\* The rational n/d (d # 0) in lowest terms with a positive denominator.
Q(x, y) ==
    LET Op(n, d) ==
           LET Reduce(g) == <<Sign(d) * (n \div g), Abs(d) \div g>>
           IN  CHOOSE r \in {Reduce(v1) : v1 \in {GCD(Abs(n), Abs(d))}} : TRUE
    IN  CHOOSE r \in {Op(v1, v2) : v1 \in {x}, v2 \in {y}} : TRUE

I(i) == <<i, 1>>

NaN == <<0, 0>>

Inf(s) == <<s, 0>>

IsNaN(a) == a = NaN

IsInf(a) == a[2] = 0 /\ a[1] # 0

IsFinite(a) == a[2] # 0

FNeg(x) ==
    LET Op(a) == <<-a[1], a[2]>>
    IN  CHOOSE r \in {Op(v1) : v1 \in {x}} : TRUE

FMul(x, y) ==
    LET Op(a, b) ==
           IF IsNaN(a) \/ IsNaN(b) THEN NaN
           ELSE IF IsInf(a) \/ IsInf(b)
                THEN (IF a[1] = 0 \/ b[1] = 0 THEN NaN
                      ELSE Inf(Sign(a[1]) * Sign(b[1])))
                ELSE LET Cross(g, h) ==
                            Q((a[1] \div g) * (b[1] \div h), (a[2] \div h) * (b[2] \div g))
                     IN  CHOOSE r \in {Cross(v1, v2) : v1 \in {GCD(Abs(a[1]), b[2])},
                                                        v2 \in {GCD(Abs(b[1]), a[2])}} : TRUE
    IN  CHOOSE r \in {Op(v1, v2) : v1 \in {x}, v2 \in {y}} : TRUE

FDiv(x, y) ==
    LET Op(a, b) ==
           IF IsNaN(a) \/ IsNaN(b) THEN NaN
           ELSE IF IsInf(a)
                THEN (IF IsInf(b) THEN NaN
                      ELSE Inf(a[1] * (IF b[1] < 0 THEN -1 ELSE 1)))
           ELSE IF IsInf(b) THEN I(0)
           ELSE IF b[1] = 0
                THEN (IF a[1] = 0 THEN NaN ELSE Inf(Sign(a[1])))
                ELSE FMul(a, Q(b[2], b[1]))
    IN  CHOOSE r \in {Op(v1, v2) : v1 \in {x}, v2 \in {y}} : TRUE

FAdd(x, y) ==
    LET Op(a, b) ==
           IF IsNaN(a) \/ IsNaN(b) THEN NaN
           ELSE IF IsInf(a)
                THEN (IF IsInf(b) /\ b[1] # a[1] THEN NaN ELSE a)
           ELSE IF IsInf(b) THEN b
           ELSE LET Sum(g) ==
                       Q(a[1] * (b[2] \div g) + b[1] * (a[2] \div g),
                         (a[2] \div g) * b[2])
                IN  CHOOSE r \in {Sum(v1) : v1 \in {GCD(a[2], b[2])}} : TRUE
    IN  CHOOSE r \in {Op(v1, v2) : v1 \in {x}, v2 \in {y}} : TRUE

FSub(x, y) == FAdd(x, FNeg(y))

\* a < b as f64 compares: false when either side is NaN.
FLt(x, y) ==
    LET Op(a, b) ==
           IF IsNaN(a) \/ IsNaN(b) THEN FALSE
           ELSE IF IsInf(a) THEN a[1] < 0 /\ b # a
           ELSE IF IsInf(b) THEN b[1] > 0
           ELSE LET Less(g) == a[1] * (b[2] \div g) < b[1] * (a[2] \div g)
                IN  CHOOSE r \in {Less(v1) : v1 \in {GCD(a[2], b[2])}} : TRUE
    IN  CHOOSE r \in {Op(v1, v2) : v1 \in {x}, v2 \in {y}} : TRUE

FLe(x, y) ==
    LET Op(a, b) == ~IsNaN(a) /\ ~IsNaN(b) /\ (a = b \/ FLt(a, b))
    IN  CHOOSE r \in {Op(v1, v2) : v1 \in {x}, v2 \in {y}} : TRUE

FGe(x, y) == FLe(y, x)

\* The integer square root of k >= 0.
ISqrt(k) == CHOOSE r \in 0..(IF k < 46340 THEN k ELSE 46340) : r * r <= k /\ k < (r + 1) * (r + 1)

\* Steps per unit of the grid a non-exact square root is rounded down to.
SqrtPrec == 10

\* f64::sqrt: exact when the argument is the square of a rational.
FSqrt(x) ==
    LET Op(a) ==
           IF IsNaN(a) \/ a[1] < 0 THEN NaN
           ELSE IF IsInf(a) THEN a
           ELSE Q(ISqrt(a[1] * a[2] * SqrtPrec * SqrtPrec), a[2] * SqrtPrec)
    IN  CHOOSE r \in {Op(v1) : v1 \in {x}} : TRUE

RECURSIVE FPow(_, _)
\* f64::powf for an exponent that is a natural number.
FPow(x, y) ==
    LET Op(a, k) == IF k = 0 THEN I(1) ELSE FMul(a, FPow(a, k - 1))
    IN  CHOOSE r \in {Op(v1, v2) : v1 \in {x}, v2 \in {y}} : TRUE

----------------------------------------------------------------------------
\* Intersection and Intersections (intersection.rs)

\* Largest |t| of an intersection, in whole units.
MaxT == 1

\* Longest Vec<Intersection> handed to Intersections::new.
MaxRange == 2

\* Most intersections one Intersections accumulates.
MaxInner == 3

\* The shapes of the scene (BoxShape values, compared by identity).
Objects == {"s1", "s2"}

\* t is a finite f64: partial_cmp(..).unwrap() panics on NaN, which no shape produces.
TValues == {I(k) : k \in (0 - MaxT)..MaxT}

Intersection(t, object) == [t |-> t, object |-> object]

AllIntersections == {Intersection(t, o) : t \in TValues, o \in Objects}

\* Every Vec<Intersection> of at most n elements, in any order.
Ranges(n) == UNION {[1..k -> AllIntersections] : k \in 0..n}

RECURSIVE InsertByT(_, _)
\* One step of the stable sort: e goes behind every element whose t is not greater.
InsertByT(s, e) ==
    IF s = <<>> THEN <<e>>
    ELSE IF FLt(e.t, s[Len(s)].t)
         THEN Append(InsertByT(SubSeq(s, 1, Len(s) - 1), e), s[Len(s)])
         ELSE Append(s, e)

RECURSIVE SortByT(_)
\* inner.sort_by(|a, b| a.t.partial_cmp(&b.t).unwrap()): ascending by t, stable.
SortByT(s) ==
    IF s = <<>> THEN <<>>
    ELSE InsertByT(SortByT(SubSeq(s, 1, Len(s) - 1)), s[Len(s)])

RECURSIVE FirstNonNegative(_)
\* The loop of new: the first element, in stored order, with t >= 0.
FirstNonNegative(s) ==
    IF s = <<>> THEN None
    ELSE IF FGe(s[1].t, I(0)) THEN Some(s[1])
    ELSE FirstNonNegative(Tail(s))

\* Bug variant of new: the vector is scanned as given, never sorted.
NewUnsorted(range) == [inner |-> range, current_hit |-> FirstNonNegative(range)]

\* Intersections::new
New(range) ==
    LET inner == SortByT(range)
    IN  [inner |-> inner, current_hit |-> FirstNonNegative(inner)]

\* The hit match of extend.
MergeHit(self_hit, range_hit) ==
    IF range_hit = None THEN self_hit
    ELSE IF self_hit = None THEN range_hit
    ELSE IF FLt(range_hit[1].t, self_hit[1].t) THEN range_hit
    ELSE self_hit

\* Bug variant of extend: the merged vector is left unsorted.
ExtendNoSort(self, range) ==
    [inner |-> self.inner \o range.inner,
     current_hit |-> MergeHit(self.current_hit, range.current_hit)]

\* Bug variant of extend: the argument's hit always replaces the receiver's.
ExtendTakeRangeHit(self, range) ==
    [inner |-> SortByT(self.inner \o range.inner),
     current_hit |-> IF range.current_hit = None THEN self.current_hit
                     ELSE range.current_hit]

\* Bug variant of extend: a receiver without a hit never gets one.
ExtendKeepNone(self, range) ==
    [inner |-> SortByT(self.inner \o range.inner),
     current_hit |-> IF self.current_hit = None THEN None
                     ELSE MergeHit(self.current_hit, range.current_hit)]

\* Bug variant of extend: on equal t the argument's hit replaces the receiver's.
ExtendTieTakesRange(self, range) ==
    [inner |-> SortByT(self.inner \o range.inner),
     current_hit |-> IF range.current_hit = None THEN self.current_hit
                     ELSE IF self.current_hit = None THEN range.current_hit
                     ELSE IF FLe(range.current_hit[1].t, self.current_hit[1].t)
                          THEN range.current_hit
                     ELSE self.current_hit]

\* Intersections::extend: the receiver after self.extend(range).
Extend(self, range) ==
    [inner |-> SortByT(self.inner \o range.inner),
     current_hit |-> MergeHit(self.current_hit, range.current_hit)]

\* Intersections::len
IntersectionsLen(i) == Len(i.inner)

\* Intersections::hit
Hit(i) == i.current_hit

\* Index<usize>: position i, counted from 0; out of range panics.
Index(i, k) == i.inner[k + 1]

NoIntersections == [inner |-> <<>>, current_hit |-> None]

----------------------------------------------------------------------------
\* Tuple (points and vectors), Ray and EPSILON, used by intersection.rs,
\* material.rs and camera.rs

Tuple(x, y, z) == <<x, y, z>>

\* A tuple with whole-number coordinates.
TupleI(x, y, z) == <<I(x), I(y), I(z)>>

\* A tuple with all three coordinates over the denominator d.
TupleQ(x, y, z, d) == <<Q(x, d), Q(y, d), Q(z, d)>>

TAdd(x, y) ==
    LET Op(a, b) == <<FAdd(a[1], b[1]), FAdd(a[2], b[2]), FAdd(a[3], b[3])>>
    IN  CHOOSE r \in {Op(v1, v2) : v1 \in {x}, v2 \in {y}} : TRUE

TSub(x, y) ==
    LET Op(a, b) == <<FSub(a[1], b[1]), FSub(a[2], b[2]), FSub(a[3], b[3])>>
    IN  CHOOSE r \in {Op(v1, v2) : v1 \in {x}, v2 \in {y}} : TRUE

TNeg(x) ==
    LET Op(a) == <<FNeg(a[1]), FNeg(a[2]), FNeg(a[3])>>
    IN  CHOOSE r \in {Op(v1) : v1 \in {x}} : TRUE

TScale(x, y) ==
    LET Op(a, k) == <<FMul(a[1], k), FMul(a[2], k), FMul(a[3], k)>>
    IN  CHOOSE r \in {Op(v1, v2) : v1 \in {x}, v2 \in {y}} : TRUE

Dot(x, y) ==
    LET Op(a, b) == FAdd(FAdd(FMul(a[1], b[1]), FMul(a[2], b[2])), FMul(a[3], b[3]))
    IN  CHOOSE r \in {Op(v1, v2) : v1 \in {x}, v2 \in {y}} : TRUE

Magnitude(a) == FSqrt(Dot(a, a))

Normalize(x) ==
    LET Op(a, m) == <<FDiv(a[1], m), FDiv(a[2], m), FDiv(a[3], m)>>
    IN  CHOOSE r \in {Op(v1, v2) : v1 \in {x}, v2 \in {Magnitude(x)}} : TRUE

\* Tuple::reflect: self - normal * 2 * self.dot(normal)
Reflect(a, normal) == TSub(a, TScale(normal, FMul(I(2), Dot(a, normal))))

Ray(origin, direction) == [origin |-> origin, direction |-> direction]

\* Ray::position
Position(ray, t) == TAdd(ray.origin, TScale(ray.direction, t))

\* 1 / EPSILON
EpsilonInverse == 10000

EPSILON == Q(1, EpsilonInverse)

----------------------------------------------------------------------------
\* Intersection::prepare_computations (intersection.rs)

PrecomputedData(t, object, point, eyev, normalv, inside, over_point) ==
    [t |-> t, object |-> object, point |-> point, eyev |-> eyev,
     normalv |-> normalv, inside |-> inside, over_point |-> over_point]

\* Bug variant: inside is detected but the normal is left facing away.
PrepareComputationsNoFlip(self, ray, normal_at) ==
    LET point == Position(ray, self.t)
        eyev == TNeg(ray.direction)
        inside == FLt(Dot(normal_at, eyev), I(0))
    IN  PrecomputedData(self.t, self.object, point, eyev, normal_at, inside,
                        TAdd(point, TScale(normal_at, EPSILON)))

\* Bug variant: over_point is taken along the normal as the shape gave it.
PrepareComputationsRawOffset(self, ray, normal_at) ==
    LET point == Position(ray, self.t)
        eyev == TNeg(ray.direction)
        inside == FLt(Dot(normal_at, eyev), I(0))
        normalv == IF inside THEN TNeg(normal_at) ELSE normal_at
    IN  PrecomputedData(self.t, self.object, point, eyev, normalv, inside,
                        TAdd(point, TScale(normal_at, EPSILON)))

\* self.prepare_computations(ray), where normal_at is what
\* self.object.normal_at(point) returns.
PrepareComputations(self, ray, normal_at) ==
    LET point == Position(ray, self.t)
        eyev == TNeg(ray.direction)
        inside == FLt(Dot(normal_at, eyev), I(0))
        normalv == IF inside THEN TNeg(normal_at) ELSE normal_at
        over_point == TAdd(point, TScale(normalv, EPSILON))
    IN  PrecomputedData(self.t, self.object, point, eyev, normalv, inside, over_point)

\* Ray origins and directions of the calls.
RayOrigins == {TupleI(0, 0, 0), TupleI(0, 0, -5), TupleI(1, -2, 3)}

RayDirections ==
    {TupleI(0, 0, 1), TupleI(0, -1, 0), TupleQ(3, 0, -4, 5), TupleQ(2, 2, 1, 3)}

\* Unit vectors a shape's normal_at returns.
UnitNormals ==
    {TupleI(0, 0, 1), TupleI(0, 0, -1), TupleI(0, 1, 0), TupleI(1, 0, 0),
     TupleQ(3, 0, -4, 5), TupleQ(-3, 0, 4, 5), TupleQ(-2, -2, -1, 3),
     TupleQ(0, 4, 3, 5)}

----------------------------------------------------------------------------
\* Color, PointLight, Pattern and Material::lighting (material.rs, light.rs)

Color(r, g, b) == <<r, g, b>>

BLACK == Color(I(0), I(0), I(0))

WHITE == Color(I(1), I(1), I(1))

\* Color + Color
ColorAdd(a, b) == <<FAdd(a[1], b[1]), FAdd(a[2], b[2]), FAdd(a[3], b[3])>>

\* Color * Color, component-wise
ColorMul(a, b) == <<FMul(a[1], b[1]), FMul(a[2], b[2]), FMul(a[3], b[3])>>

\* Color * f64
ColorScale(a, k) == <<FMul(a[1], k), FMul(a[2], k), FMul(a[3], k)>>

\* PointLight::new
PointLight(position, intensity) == [position |-> position, intensity |-> intensity]

\* f64::floor of a finite value
Floor(a) == a[1] \div a[2]

\* A stripe pattern on an untransformed object: a where floor(x) is even, else b.
StripePattern(a, b) == [a |-> a, b |-> b]

PatternAtShape(p, object, point) == IF Floor(point[1]) % 2 = 0 THEN p.a ELSE p.b

\* Material::new
Material(color, ambient, diffuse, specular, shininess, pattern) ==
    [color |-> color, ambient |-> ambient, diffuse |-> diffuse,
     specular |-> specular, shininess |-> shininess, pattern |-> pattern]

\* The locals of lighting up to the (diffuse, specular) pair.
LightingLocals(self, object, light, point, eyev, normalv) ==
    LET color == IF self.pattern # None
                 THEN PatternAtShape(self.pattern[1], object, point)
                 ELSE self.color
        effective_color == ColorMul(color, light.intensity)
        lightv == Normalize(TSub(light.position, point))
        ambient == ColorScale(effective_color, self.ambient)
        light_dot_normal == Dot(lightv, normalv)
        reflectv == Reflect(TNeg(lightv), normalv)
        reflect_dot_eye == Dot(reflectv, eyev)
    IN  [color |-> color,
         ambient |-> ambient,
         diffuse |-> IF FLt(light_dot_normal, I(0)) THEN BLACK
                     ELSE ColorScale(ColorScale(effective_color, self.diffuse),
                                     light_dot_normal),
         specular |-> IF FLt(light_dot_normal, I(0)) THEN BLACK
                      ELSE IF FLe(reflect_dot_eye, I(0)) THEN BLACK
                      ELSE ColorScale(ColorScale(light.intensity, self.specular),
                                      FPow(reflect_dot_eye, self.shininess))]

\* Bug variant: a shadowed point gets no light at all, ambient included.
LightingShadowKillsAmbient(self, object, light, point, eyev, normalv, in_shadow) ==
    LET l == LightingLocals(self, object, light, point, eyev, normalv)
    IN  l @@
        [result |-> IF in_shadow THEN BLACK
                    ELSE ColorAdd(l.ambient, ColorAdd(l.diffuse, l.specular))]

\* self.lighting(object, light, point, eyev, normalv, in_shadow): the returned
\* color as result, beside the locals it was summed from.
Lighting(self, object, light, point, eyev, normalv, in_shadow) ==
    LET l == LightingLocals(self, object, light, point, eyev, normalv)
    IN  l @@ [result |-> ColorAdd(l.ambient,
                                  IF in_shadow THEN BLACK
                                  ELSE ColorAdd(l.diffuse, l.specular))]

\* Largest shininess exponent of a material.
MaxShininess == 2

Materials ==
    {Material(c, a, Q(9, 10), s, sh, p) :
        c \in {WHITE, Color(I(1), Q(1, 2), I(0))},
        a \in {Q(1, 10), I(1)},
        s \in {I(0), Q(9, 10)},
        sh \in 1..MaxShininess,
        p \in {None, Some(StripePattern(WHITE, Color(I(0), I(0), Q(1, 2))))}}

Lights ==
    {PointLight(pos, WHITE) :
        pos \in {TupleI(0, 0, -10), TupleI(0, 0, 10), TupleI(0, 6, -8)}}

ShadedPoints == {TupleI(0, 0, 0), TupleQ(3, 0, 0, 2)}

EyeVectors == {TupleI(0, 0, -1), TupleQ(0, 3, -4, 5)}

----------------------------------------------------------------------------
\* Matrix, World, Canvas and Camera (camera.rs)

\* Angles are kept as rational multiples of pi.
FRAC_PI_2 == Q(1, 2)

\* f64::tan at the multiples of pi / 4 the cameras use.
Tan(a) ==
    CASE a = I(0) -> I(0)
      [] a = Q(1, 4) -> I(1)
      [] a = Q(-1, 4) -> I(-1)

\* The transforms the cameras use are translations, kept as their offset.
Translation(x, y, z) == TupleI(x, y, z)

\* Matrix::default()
IDENTITY_MATRIX == Translation(0, 0, 0)

\* transform.inverse().unwrap() * point
InverseTimesPoint(transform, point) == TSub(point, transform)

ORIGO == TupleI(0, 0, 0)

\* World::color_at of a scene whose color depends on where the ray comes from
\* and on the side it leaves to.
ColorAt(ray) ==
    Color(IF FLt(I(0), ray.direction[1]) THEN I(1) ELSE I(0),
          IF FLt(I(0), ray.direction[2]) THEN I(1) ELSE I(0),
          IF ray.origin = ORIGO THEN I(0) ELSE Q(1, 2))

\* Bug variant of new: a canvas taller than wide is sized like a wide one.
CameraNewNoTallBranch(hsize, vsize, field_of_view, transform) ==
    LET half_view == Tan(FDiv(field_of_view, I(2)))
        aspect_ratio == FDiv(I(hsize), I(vsize))
        half_width == half_view
        half_height == FDiv(half_view, aspect_ratio)
    IN  [hsize |-> hsize, vsize |-> vsize, field_of_view |-> field_of_view,
         pixel_size |-> FDiv(FMul(half_width, I(2)), I(hsize)),
         transform |-> IF transform = None THEN IDENTITY_MATRIX ELSE transform[1],
         half_width |-> half_width, half_height |-> half_height]

\* Camera::new
CameraNew(hsize, vsize, field_of_view, transform) ==
    LET half_view == Tan(FDiv(field_of_view, I(2)))
        aspect_ratio == FDiv(I(hsize), I(vsize))
        wide == FGe(aspect_ratio, I(1))
        half_width == IF wide THEN half_view ELSE FMul(half_view, aspect_ratio)
        half_height == IF wide THEN FDiv(half_view, aspect_ratio) ELSE half_view
        pixel_size == FDiv(FMul(half_width, I(2)), I(hsize))
    IN  [hsize |-> hsize, vsize |-> vsize, field_of_view |-> field_of_view,
         pixel_size |-> pixel_size,
         transform |-> IF transform = None THEN IDENTITY_MATRIX ELSE transform[1],
         half_width |-> half_width, half_height |-> half_height]

\* Camera::ray_for_pixel
RayForPixel(self, x, y) ==
    LET xoffset == FMul(FAdd(I(x), Q(1, 2)), self.pixel_size)
        yoffset == FMul(FAdd(I(y), Q(1, 2)), self.pixel_size)
        world_x == FSub(self.half_width, xoffset)
        world_y == FSub(self.half_height, yoffset)
        pixel == InverseTimesPoint(self.transform, Tuple(world_x, world_y, I(-1)))
        origin == InverseTimesPoint(self.transform, ORIGO)
        direction == Normalize(TSub(pixel, origin))
    IN  Ray(origin, direction)

\* Canvas::new: nothing written yet.  The canvas is kept as the writes made to it.
CanvasNew(width, height) == <<>>

\* Canvas::write_pixel
WritePixel(canvas, x, y, color) == Append(canvas, [x |-> x, y |-> y, color |-> color])

\* Largest hsize and vsize of a camera.
MaxSize == 3

FieldsOfView == {FNeg(FRAC_PI_2), I(0), FRAC_PI_2}

Transforms == {None, Some(Translation(0, 2, -5))}

\* The other components while one component is exercised.
IntersectionsIdle ==
    /\ input = <<>>
    /\ xs = NoIntersections
    /\ self0 = NoIntersections
    /\ arg = NoIntersections
    /\ op = "none"

PrepareIdle == comps = None

LightingIdle == shade = None

CameraIdle ==
    /\ cam = None
    /\ image = <<>>
    /\ pc = "none"
    /\ px = 0
    /\ py = 0

\* let xs = Intersections::new(input)
InitIntersections ==
    /\ input \in Ranges(MaxRange)
    /\ xs = New(input)
    /\ self0 = NoIntersections
    /\ arg = NoIntersections
    /\ op = "new"
    /\ PrepareIdle /\ LightingIdle /\ CameraIdle

\* xs.extend(Intersections::new(r))
ExtendStep ==
    /\ \E r \in Ranges(MaxRange) :
          /\ Len(xs.inner) + Len(r) <= MaxInner
          /\ input' = r
          /\ arg' = New(r)
          /\ xs' = Extend(xs, New(r))
    /\ self0' = xs
    /\ op' = "extend"
    /\ UNCHANGED <<comps, shade, cam, image, pc, px, py>>

NextIntersections == ExtendStep

SpecIntersections == InitIntersections /\ [][NextIntersections]_vars

\* The t values stored in a sequence of intersections that are >= 0.
NonNegativeTs(s) == {s[i].t : i \in {j \in 1..Len(s) : FGe(s[j].t, I(0))}}

\* The least element of a non-empty set of t values.
MinT(S) == CHOOSE m \in S : \A o \in S : FLe(m, o)

\* The t of an Option<Intersection>, as an Option.
HitT(h) == IF h = None THEN None ELSE Some(h[1].t)

\* h is none when no t of vec is >= 0, else an element of vec with the least such t.
IsLowestNonNegative(vec, h) ==
    IF NonNegativeTs(vec) = {} THEN h = None
    ELSE /\ h # None
         /\ \E i \in 1..Len(vec) : vec[i] = h[1]
         /\ h[1].t = MinT(NonNegativeTs(vec))

\* C1: whatever the order of the vector given to Intersections::new, hit() is
\* the element of the vector with the least non-negative t, and it is none
\* exactly when the vector is empty or every t in it is negative.
C1_NewHitIsLowestNonNegative ==
    /\ op = "new" => IsLowestNonNegative(input, Hit(xs))
    /\ op = "extend" => IsLowestNonNegative(input, Hit(arg))

\* new was given a vector whose least non-negative t came last, and hit() is it.
C1_Witness ==
    /\ op = "new"
    /\ Len(input) = 2
    /\ FGe(input[2].t, I(0))
    /\ FLt(input[2].t, input[1].t)
    /\ Hit(xs) = Some(input[2])

\* C2: after new and after every extend, the cached hit carries the least
\* non-negative t of all stored intersections and is none exactly when no
\* stored t is >= 0; after a.extend(b) its t is the smaller of the two
\* previous hit t, the one existing hit when only one side had one, and none
\* when neither had one.
C2_CachedHitIsLowestStored ==
    /\ (Hit(xs) = None) <=> (NonNegativeTs(xs.inner) = {})
    /\ Hit(xs) # None => Hit(xs)[1].t = MinT(NonNegativeTs(xs.inner))
    /\ op = "extend" =>
          HitT(Hit(xs)) =
             IF Hit(self0) = None THEN HitT(Hit(arg))
             ELSE IF Hit(arg) = None THEN HitT(Hit(self0))
             ELSE Some(MinT({Hit(self0)[1].t, Hit(arg)[1].t}))

\* An extend whose argument brought a nearer hit than the receiver had.
C2_Witness ==
    /\ op = "extend"
    /\ Hit(self0) # None
    /\ Hit(arg) # None
    /\ FLt(Hit(arg)[1].t, Hit(self0)[1].t)
    /\ Hit(xs) = Hit(arg)

\* The number of stored intersections whose t is below (strict) or not above t.
CountBelow(i, t, strict) ==
    Cardinality({k \in 1..Len(i.inner) :
                    IF strict THEN FLt(i.inner[k].t, t) ELSE FLe(i.inner[k].t, t)})

\* C3: after new and after every extend the stored intersections ascend in t,
\* and position i holds an intersection of sorted rank i: at most i stored
\* intersections have a smaller t and more than i have a t not greater.
C3_StoredSortedByT ==
    /\ \A i, j \in 1..Len(xs.inner) : i < j => FLe(xs.inner[i].t, xs.inner[j].t)
    /\ \A i \in 0..(IntersectionsLen(xs) - 1) :
          /\ CountBelow(xs, Index(xs, i).t, TRUE) <= i
          /\ CountBelow(xs, Index(xs, i).t, FALSE) > i

\* An extend whose argument holds a t below one the receiver already stored.
C3_Witness ==
    /\ op = "extend"
    /\ Len(self0.inner) > 0
    /\ Len(arg.inner) > 0
    /\ FLt(arg.inner[1].t, self0.inner[Len(self0.inner)].t)
    /\ Index(xs, 0).t = arg.inner[1].t

\* C4: a.extend(b) and b.extend(a) store the same number of intersections,
\* len(a) + len(b), and have the same hit t, or both no hit.
C4_ExtendCommutes ==
    op = "extend" =>
       /\ IntersectionsLen(xs) = IntersectionsLen(self0) + IntersectionsLen(arg)
       /\ IntersectionsLen(Extend(arg, self0)) = IntersectionsLen(xs)
       /\ HitT(Hit(Extend(arg, self0))) = HitT(Hit(xs))

\* Both sides had a hit, at different t, when they were merged.
C4_Witness ==
    /\ op = "extend"
    /\ Hit(self0) # None
    /\ Hit(arg) # None
    /\ HitT(Hit(self0)) # HitT(Hit(arg))

\* The sorted positions, counted from 0, whose intersection has t >= 0.
NonNegativeIndices(i) ==
    {k \in 0..(IntersectionsLen(i) - 1) : FGe(Index(i, k).t, I(0))}

\* The least element of a non-empty set of indices.
MinIndex(S) == CHOOSE m \in S : \A o \in S : m <= o

\* C11: after new and after any sequence of extend calls, whenever hit()
\* returns an intersection, some stored t is >= 0 and the returned intersection
\* has the same t and the same object as the one stored at the lowest sorted
\* index whose t >= 0, also when several stored intersections of the receiver
\* and the merged set share that least non-negative t.
C11_HitIsFirstStoredNonNegative ==
    Hit(xs) # None =>
       /\ NonNegativeIndices(xs) # {}
       /\ Hit(xs)[1].t = Index(xs, MinIndex(NonNegativeIndices(xs))).t
       /\ Hit(xs)[1].object = Index(xs, MinIndex(NonNegativeIndices(xs))).object

\* An extend that merged a hit of the same t as the receiver's on another
\* object: both are stored and hit() is the one stored first.
C11_Witness ==
    /\ op = "extend"
    /\ Hit(self0) # None
    /\ Hit(arg) # None
    /\ Hit(self0)[1].t = Hit(arg)[1].t
    /\ Hit(self0)[1].object # Hit(arg)[1].object
    /\ Hit(xs) = Some(Index(xs, MinIndex(NonNegativeIndices(xs))))
    /\ Index(xs, MinIndex(NonNegativeIndices(xs)) + 1) = Hit(arg)[1]

----------------------------------------------------------------------------
\* prepare_computations, called on any intersection with any ray

\* The call about to be made: any intersection, any ray, any unit normal
\* from the shape.
InitPrepare ==
    /\ comps \in {Some([self |-> i, ray |-> Ray(o, d), normal_at |-> n, data |-> None]) :
                     i \in AllIntersections, o \in RayOrigins, d \in RayDirections,
                     n \in UnitNormals}
    /\ IntersectionsIdle /\ LightingIdle /\ CameraIdle

\* data = self.prepare_computations(ray)
PrepareStep ==
    /\ comps # None
    /\ comps[1].data = None
    /\ comps' = Some([comps[1] EXCEPT
                        !.data = Some(PrepareComputations(comps[1].self, comps[1].ray,
                                                          comps[1].normal_at))])
    /\ UNCHANGED <<input, xs, self0, arg, op, shade, cam, image, pc, px, py>>

NextPrepare == PrepareStep

SpecPrepare == InitPrepare /\ [][NextPrepare]_vars

\* prepare_computations has returned.
Prepared == comps # None /\ comps[1].data # None

\* C5: prepare_computations returns eyev = -ray.direction and a normalv with
\* normalv . eyev >= 0; inside is true exactly when the normal the shape
\* returned had a negative dot product with eyev, and then normalv is that
\* normal negated, otherwise that normal unchanged.
C5_NormalFacesEye ==
    Prepared =>
       LET c == comps[1]
           d == comps[1].data[1]
       IN  /\ d.eyev = TNeg(c.ray.direction)
           /\ FGe(Dot(d.normalv, d.eyev), I(0))
           /\ d.inside <=> FLt(Dot(c.normal_at, d.eyev), I(0))
           /\ d.normalv = IF d.inside THEN TNeg(c.normal_at) ELSE c.normal_at

\* A hit from the inside: the shape's normal pointed away from the eye.
C5_Witness ==
    /\ Prepared
    /\ comps[1].data[1].inside
    /\ FLt(Dot(comps[1].normal_at, TNeg(comps[1].ray.direction)), I(0))
    /\ comps[1].data[1].normalv = TNeg(comps[1].normal_at)

\* C10: over_point = point + EPSILON * normalv with the normal as it is after
\* the inside flip: it lies more than EPSILON / 2 from point along that
\* eye-facing unit normal, and never on the far side of the surface from the eye.
C10_OverPointOnEyeSide ==
    Prepared =>
       LET c == comps[1]
           d == comps[1].data[1]
           offset == TSub(d.over_point, d.point)
       IN  /\ d.point = Position(c.ray, c.self.t)
           /\ d.over_point = TAdd(d.point, TScale(d.normalv, EPSILON))
           /\ FLt(FDiv(EPSILON, I(2)), Dot(offset, d.normalv))
           /\ FGe(Dot(offset, d.eyev), I(0))
           /\ FGe(Dot(offset, TNeg(c.ray.direction)), I(0))

\* A hit from the inside whose over_point moved against the shape's own normal.
C10_Witness ==
    /\ Prepared
    /\ comps[1].data[1].inside
    /\ FLt(Dot(TSub(comps[1].data[1].over_point, comps[1].data[1].point),
               comps[1].normal_at), I(0))

----------------------------------------------------------------------------
\* Material::lighting, called on a surface whose normal is (0, 0, -1)

\* The call about to be made.
InitLighting ==
    /\ shade \in {Some([material |-> m, object |-> o, light |-> l, point |-> p,
                        eyev |-> e, normalv |-> TupleI(0, 0, -1), in_shadow |-> sh,
                        out |-> None]) :
                     m \in Materials, o \in {"s1"}, l \in Lights, p \in ShadedPoints,
                     e \in EyeVectors, sh \in BOOLEAN}
    /\ IntersectionsIdle /\ PrepareIdle /\ CameraIdle

\* out = material.lighting(object, light, point, eyev, normalv, in_shadow)
LightingStep ==
    /\ shade # None
    /\ shade[1].out = None
    /\ shade' = Some([shade[1] EXCEPT
                        !.out = Some(Lighting(shade[1].material, shade[1].object,
                                              shade[1].light, shade[1].point,
                                              shade[1].eyev, shade[1].normalv,
                                              shade[1].in_shadow))])
    /\ UNCHANGED <<input, xs, self0, arg, op, comps, cam, image, pc, px, py>>

NextLighting == LightingStep

SpecLighting == InitLighting /\ [][NextLighting]_vars

\* lighting has returned.
Shaded == shade # None /\ shade[1].out # None

\* base color x light intensity x material.ambient of the call in shade.
AmbientTerm ==
    LET c == shade[1]
        base == IF c.material.pattern = None THEN c.material.color
                ELSE PatternAtShape(c.material.pattern[1], c.object, c.point)
    IN  ColorScale(ColorMul(base, c.light.intensity), c.material.ambient)

\* C6: with in_shadow the result is exactly the ambient term, base color x
\* light intensity x material.ambient, whatever diffuse and specular are;
\* without it the result is that ambient term plus diffuse plus specular.
C6_ShadowKeepsAmbientOnly ==
    Shaded =>
       LET out == shade[1].out[1]
       IN  /\ out.ambient = AmbientTerm
           /\ shade[1].in_shadow => out.result = AmbientTerm
           /\ ~shade[1].in_shadow =>
                 out.result = ColorAdd(ColorAdd(AmbientTerm, out.diffuse), out.specular)

\* A shadowed call whose diffuse and specular terms were both lit.
C6_Witness ==
    /\ Shaded
    /\ shade[1].in_shadow
    /\ shade[1].out[1].diffuse # BLACK
    /\ shade[1].out[1].specular # BLACK
    /\ shade[1].out[1].result = shade[1].out[1].ambient
    /\ shade[1].out[1].result # BLACK

----------------------------------------------------------------------------
\* Camera::new with any parameters, then Camera::render

InitCamera ==
    /\ cam = None
    /\ image = <<>>
    /\ pc = "construct"
    /\ px = 0
    /\ py = 0
    /\ IntersectionsIdle /\ PrepareIdle /\ LightingIdle

\* cam = Camera::new(hsize, vsize, field_of_view, transform)
CameraNewStep ==
    /\ pc = "construct"
    /\ \E hsize \in 0..MaxSize, vsize \in 0..MaxSize, field_of_view \in FieldsOfView,
          transform \in Transforms :
          cam' = Some(CameraNew(hsize, vsize, field_of_view, transform))
    /\ pc' = "built"
    /\ UNCHANGED <<input, xs, self0, arg, op, comps, shade, image, px, py>>

\* cam.render(world) is entered: the canvas is made and the first row begins.
RenderBegin ==
    /\ pc = "built"
    /\ image' = CanvasNew(cam[1].hsize, cam[1].vsize)
    /\ px' = 0
    /\ py' = 0
    /\ pc' = "render"
    /\ UNCHANGED <<input, xs, self0, arg, op, comps, shade, cam>>

\* Bug variant of the loop body: the pixel is written with x and y exchanged.
RenderPixelTransposed ==
    /\ pc = "render"
    /\ py < cam[1].vsize
    /\ px < cam[1].hsize
    /\ image' = WritePixel(image, py, px, ColorAt(RayForPixel(cam[1], px, py)))
    /\ px' = px + 1
    /\ UNCHANGED <<input, xs, self0, arg, op, comps, shade, cam, pc, py>>

\* One pass of the inner loop body: pixel (x, y) is traced and written.
RenderPixel ==
    /\ pc = "render"
    /\ py < cam[1].vsize
    /\ px < cam[1].hsize
    /\ image' = WritePixel(image, px, py, ColorAt(RayForPixel(cam[1], px, py)))
    /\ px' = px + 1
    /\ UNCHANGED <<input, xs, self0, arg, op, comps, shade, cam, pc, py>>

\* The inner loop is exhausted: the next row begins.
RenderRowEnd ==
    /\ pc = "render"
    /\ py < cam[1].vsize
    /\ px >= cam[1].hsize
    /\ px' = 0
    /\ py' = py + 1
    /\ UNCHANGED <<input, xs, self0, arg, op, comps, shade, cam, image, pc>>

\* The outer loop is exhausted: render returns the image.
RenderReturn ==
    /\ pc = "render"
    /\ py >= cam[1].vsize
    /\ pc' = "done"
    /\ UNCHANGED <<input, xs, self0, arg, op, comps, shade, cam, image, px, py>>

RenderLoop == RenderPixel \/ RenderRowEnd \/ RenderReturn

NextCamera == CameraNewStep \/ RenderBegin \/ RenderLoop

SpecCamera == InitCamera /\ [][NextCamera]_vars

\* The loops of render are sequential code: once entered they keep running.
SpecRender == SpecCamera /\ WF_vars(RenderLoop)

\* The pixels of the camera's grid.
Grid == {<<x, y>> : x \in 0..(cam[1].hsize - 1), y \in 0..(cam[1].vsize - 1)}

\* The positions in the canvas' writes that wrote pixel (x, y).
WritesTo(x, y) == {k \in 1..Len(image) : image[k].x = x /\ image[k].y = y}

\* C7: render terminates; when it has, every pixel of the hsize x vsize grid
\* was written exactly once, with world.color_at(ray_for_pixel(x, y)); at no
\* time is a pixel outside the grid written, or a pixel written twice.
C7_RenderCoversGridOnce ==
    /\ [](pc \in {"render", "done"} =>
             \A k \in 1..Len(image) :
                /\ <<image[k].x, image[k].y>> \in Grid
                /\ Cardinality(WritesTo(image[k].x, image[k].y)) = 1
                /\ image[k].color =
                      ColorAt(RayForPixel(cam[1], image[k].x, image[k].y)))
    /\ [](pc = "done" =>
             \A p \in Grid : Cardinality(WritesTo(p[1], p[2])) = 1)
    /\ (pc = "render" ~> pc = "done")

\* render returned an image of a grid that is not square, in two different colors.
C7_Witness ==
    /\ pc = "done"
    /\ cam[1].hsize > cam[1].vsize
    /\ cam[1].vsize > 1
    /\ Len(image) = cam[1].hsize * cam[1].vsize
    /\ \E j, k \in 1..Len(image) : image[j].color # image[k].color

WellFormed(c) == c.hsize > 0 /\ c.vsize > 0 /\ FLt(I(0), c.field_of_view)

\* C9: Camera::new rejects hsize = 0, vsize = 0 and a field of view that is
\* not positive: no Camera is ever returned for such parameters, and so none
\* whose derived values are NaN or infinite.
C9_MalformedCameraRejected ==
    cam # None =>
       /\ WellFormed(cam[1])
       /\ IsFinite(cam[1].pixel_size)
       /\ IsFinite(cam[1].half_width)
       /\ IsFinite(cam[1].half_height)

====
